---- MODULE Spec2Model ----
(***************************************************************************)
(* Lingtea Dashboard (src/app.py): one run of the script, from the login   *)
(* gate through load_data, the sidebar filters, the KPIs, the rankings,    *)
(* the channel x month pivot and the spreadsheet export.                   *)
(*                                                                         *)
(* Representation.                                                         *)
(*   A nullable value (NaN / NaT / a value) is <<>> or <<v>>.              *)
(*   A raw numeric cell is the sequence of its characters.                 *)
(*   A raw date cell is the sequence of its number components; it parses   *)
(*   when it is <<year, month, day>> of a calendar day.                    *)
(*   A timestamp is <<year, month, day, tick>>, tick 0 being midnight.     *)
(*   A period "YYYY-MM" is <<year, month>>; for this canonical form the    *)
(*   string order and the order of the parsed dates are both the order of  *)
(*   year * 12 + month.                                                    *)
(*   A frame row has the fields date, period, channel, product, qty, rev   *)
(*   for the sheet's six columns, in this order.                           *)
(*   Sums are exact integers; a quotient is kept as <<numerator,           *)
(*   denominator>>.                                                        *)
(***************************************************************************)
EXTENDS Integers, Sequences, FiniteSets, TLC

VARIABLES
    pc,                 \* position of the script
    is_cloud,           \* app.py:36
    user_email,         \* app.py:44 / 59
    data,               \* load_data: sheet.get_all_values() without its header
    today,              \* load_data: datetime.today(), <<>> outside load_data
    df,                 \* the loaded frame
    selected_months,
    selected_channels,
    selected_items,
    filtered_df,
    total_qty,
    total_sales,
    monthly_sales,
    mom,
    top_channel,
    monthly_trend,
    channel_sales,
    item_rank,
    styled_rank,
    pivot_table,
    latest_month,
    styled_pivot,
    excel_data,
    error               \* the exception that ended the run, "" when none

vars == << pc, is_cloud, user_email, data, today, df, selected_months,
           selected_channels, selected_items, filtered_df, total_qty,
           total_sales, monthly_sales, mom, top_channel, monthly_trend,
           channel_sales, item_rank, styled_rank, pivot_table, latest_month,
           styled_pivot, excel_data, error >>

----------------------------------------------------------------------------
(* Bounds of the model *)

\* rows of the sheet in a full run
MaxRows == 2
\* rows of the filtered frame when the trend is checked alone
MaxTrendRows == 3
\* rows of the filtered frame when the product ranking is checked alone
MaxRankRows == 4
\* rows of the loaded frame when the pivot is checked alone
MaxPivotRows == 3

(* Program constants *)

ALLOWED_USERS ==
    { "js.hong1@lingtea.co.kr", "finance@company.com", "marketing@company.com" }

LOCAL_USER == "local_test_user"

\* relativedelta(months=12)
WindowMonths == 12

\* nlargest(3)
TopK == 3

\* the top-channel value of an empty frame
NO_CHANNEL == "-"

----------------------------------------------------------------------------
(* Nullable values *)

Null == <<>>
Some(v) == <<v>>
IsNull(x) == x = <<>>
\* a sum skips NaN
ValueOr0(x) == IF x = <<>> THEN 0 ELSE x[1]

Range(s) == { s[i] : i \in 1..Len(s) }

----------------------------------------------------------------------------
(* Record Normalizer: pd.to_numeric over the comma-stripped cell *)

Digits == << "0", "1", "2", "3", "4", "5", "6", "7", "8", "9" >>

IsDigit(c) == \E i \in 1..Len(Digits) : Digits[i] = c

DigitVal(c) == (CHOOSE i \in 1..Len(Digits) : Digits[i] = c) - 1

\* .str.replace(",", "", regex=False)
ReplaceComma(cell) == SelectSeq(cell, LAMBDA c : c # ",")

RECURSIVE DigitsValue(_)
DigitsValue(s) ==
    IF s = <<>> THEN 0
    ELSE DigitsValue(SubSeq(s, 1, Len(s) - 1)) * 10 + DigitVal(s[Len(s)])

\* pd.to_numeric(errors="coerce") on a cell of digits with an optional sign
ToNumeric(cell) ==
    LET neg  == cell # <<>> /\ cell[1] = "-"
        body == IF neg THEN Tail(cell) ELSE cell
    IN  IF body # <<>> /\ \A i \in 1..Len(body) : IsDigit(body[i])
        THEN Some(IF neg THEN 0 - DigitsValue(body) ELSE DigitsValue(body))
        ELSE Null

----------------------------------------------------------------------------
(* Dates *)

IsLeap(y) == (y % 4 = 0 /\ y % 100 # 0) \/ y % 400 = 0

DaysIn(y, m) ==
    IF m = 2 THEN (IF IsLeap(y) THEN 29 ELSE 28)
    ELSE IF m \in {4, 6, 9, 11} THEN 30 ELSE 31

\* pd.to_datetime(errors="coerce") on a date cell: NaT unless a calendar day
ToDatetime(cell) ==
    IF /\ Len(cell) = 3
       /\ cell[2] \in 1..12
       /\ cell[3] \in 1..DaysIn(cell[1], cell[2])
    THEN Some(<< cell[1], cell[2], cell[3], 0 >>)
    ELSE Null

Min(a, b) == IF a <= b THEN a ELSE b

\* ts - relativedelta(months=n): the same day n months back, clipped to the
\* length of that month, the time of day kept
MonthsAgo(ts, n) ==
    LET total == ts[1] * 12 + (ts[2] - 1) - n
        y     == total \div 12
        m     == (total % 12) + 1
    IN  << y, m, Min(ts[3], DaysIn(y, m)), ts[4] >>

\* a >= b on timestamps
TsGeq(a, b) ==
    \/ a[1] > b[1]
    \/ a[1] = b[1] /\ a[2] > b[2]
    \/ a[1] = b[1] /\ a[2] = b[2] /\ a[3] > b[3]
    \/ a[1] = b[1] /\ a[2] = b[2] /\ a[3] = b[3] /\ a[4] >= b[4]

\* load_data, lines 107-127: one row of the frame from one row of cells
NormalizeRow(row) ==
    [ date    |-> ToDatetime(row.date),
      period  |-> row.period,
      channel |-> row.channel,
      product |-> row.product,
      qty     |-> ToNumeric(ReplaceComma(row.qty)),
      rev     |-> ToNumeric(ReplaceComma(row.rev)) ]

Normalize(rows) == [ i \in 1..Len(rows) |-> NormalizeRow(rows[i]) ]

\* as InWindow, the comparison strict
InWindowStrict(r, cutoff) ==
    ~IsNull(r.date) /\ TsGeq(r.date[1], cutoff) /\ r.date[1] # cutoff

\* as InWindow, after a dropna() over the numeric columns
InWindowDropNa(r, cutoff) ==
    ~IsNull(r.date) /\ TsGeq(r.date[1], cutoff) /\ ~IsNull(r.qty) /\ ~IsNull(r.rev)

\* df["date"] >= one_year_ago: a NaT compares false
InWindow(r, cutoff) == ~IsNull(r.date) /\ TsGeq(r.date[1], cutoff)

\* load_data, lines 130-132
WindowCut(frame, now) ==
    SelectSeq(frame, LAMBDA r : InWindow(r, MonthsAgo(now, WindowMonths)))

----------------------------------------------------------------------------
(* Orders of the keys *)

\* the channel codes and product names of the model, in Python's str order
Names == << "C1", "C2", "C3", "T1", "T2", "T3", "T4" >>

\* the place of a channel code or product name in str order
StrOrd(s) == CHOOSE i \in 1..Len(Names) : Names[i] = s

\* the place of a period: "YYYY-MM" as a str, and pd.to_datetime(period + "-01")
PeriodOrd(p) == p[1] * 12 + p[2]

\* the place of a key of column `col` among the keys of that column
KeyOrd(col, k) == IF col = "period" THEN PeriodOrd(k) ELSE StrOrd(k)

\* sorted(...) of a set of keys of column `col`: each key stands after the
\* keys below it
SortAsc(S, col) ==
    [ i \in 1..Cardinality(S) |->
        CHOOSE x \in S :
           Cardinality({ y \in S : KeyOrd(col, y) < KeyOrd(col, x) }) = i - 1 ]

\* the arrangements of the places of a sequence
Arrangements(n) ==
    { f \in [1..n -> 1..n] : \A i, j \in 1..n : i # j => f[i] # f[j] }

\* as SortValuesDesc, ascending left at its default
SortValuesAsc(s) ==
    { [ i \in 1..Len(s) |-> s[f[i]] ] :
        f \in { g \in Arrangements(Len(s)) :
                  \A i \in 1..(Len(s) - 1) : s[g[i]].val <= s[g[i + 1]].val } }

\* sort_values(by=val, ascending=False) with the default kind "quicksort",
\* which is not stable: every arrangement of the entries in which val never
\* increases is an order it can leave them in
SortValuesDesc(s) ==
    { [ i \in 1..Len(s) |-> s[f[i]] ] :
        f \in { g \in Arrangements(Len(s)) :
                  \A i \in 1..(Len(s) - 1) : s[g[i]].val >= s[g[i + 1]].val } }

----------------------------------------------------------------------------
(* Dimension Filter, lines 195-199 *)

\* as IsIn, the product condition left out
IsInWithoutProduct(r, months, channels, items) ==
    /\ r.period \in months
    /\ r.channel \in channels

\* one row of the boolean mask
IsIn(r, months, channels, items) ==
    /\ r.period \in months
    /\ r.channel \in channels
    /\ r.product \in items

FilterFrame(frame, months, channels, items) ==
    SelectSeq(frame, LAMBDA r : IsIn(r, months, channels, items))

\* df[col].unique(), lines 151, 166, 181
Unique(frame, col) == { frame[i][col] : i \in 1..Len(frame) }

----------------------------------------------------------------------------
(* Aggregator *)

\* frame[col]
Series(frame, col) == [ i \in 1..Len(frame) |-> frame[i][col] ]

\* Series.sum(): NaN counts as 0, the empty sum is 0
RECURSIVE SeriesSum(_)
SeriesSum(s) ==
    IF s = <<>> THEN 0 ELSE ValueOr0(s[1]) + SeriesSum(Tail(s))

\* frame.groupby(col)[rev].sum().reset_index(): one entry per key of the
\* column, the keys ascending
GroupBySum(frame, col) ==
    LET keys == SortAsc(Unique(frame, col), col)
    IN  [ i \in 1..Len(keys) |->
            [ key |-> keys[i],
              val |-> SeriesSum(Series(SelectSeq(frame, LAMBDA r : r[col] = keys[i]),
                                       "rev")) ] ]

----------------------------------------------------------------------------
(* Trend / MoM Analyzer, lines 208-224 *)

\* lines 208-216: groupby period, then sort_values on the parsed period
MonthlySales(frame) ==
    LET g == GroupBySum(frame, "period")
    IN  { [ i \in 1..Len(g) |-> g[f[i]] ] :
            f \in { h \in Arrangements(Len(g)) :
                      \A i \in 1..(Len(g) - 1) :
                         PeriodOrd(g[h[i]].key) <= PeriodOrd(g[h[i + 1]].key) } }

\* as MoM, against the first period instead of the one before the last
MoMAgainstFirst(monthly) ==
    IF Len(monthly) >= 2
    THEN LET current_month_sales  == monthly[Len(monthly)].val
             previous_month_sales == monthly[1].val
         IN  IF previous_month_sales # 0
             THEN << (current_month_sales - previous_month_sales) * 100,
                     previous_month_sales >>
             ELSE << 0, 1 >>
    ELSE << 0, 1 >>

\* lines 218-224, the quotient as << numerator, denominator >>
MoM(monthly) ==
    IF Len(monthly) >= 2
    THEN LET current_month_sales  == monthly[Len(monthly)].val
             previous_month_sales == monthly[Len(monthly) - 1].val
         IN  IF previous_month_sales # 0
             THEN << (current_month_sales - previous_month_sales) * 100,
                     previous_month_sales >>
             ELSE << 0, 1 >>
    ELSE << 0, 1 >>

\* Series.idxmax(): the first label holding the greatest value
IdxMax(agg) ==
    agg[CHOOSE i \in 1..Len(agg) :
            /\ \A j \in 1..Len(agg) : agg[i].val >= agg[j].val
            /\ \A j \in 1..(i - 1) : agg[j].val < agg[i].val].key

\* lines 226-231
TopChannel(frame) ==
    IF frame # <<>> THEN IdxMax(GroupBySum(frame, "channel")) ELSE NO_CHANNEL

----------------------------------------------------------------------------
(* Ranker *)

RemoveAt(s, i) == SubSeq(s, 1, i - 1) \o SubSeq(s, i + 1, Len(s))

\* Series.nlargest(n).values: the n greatest values, each as often as it occurs
RECURSIVE NLargest(_, _)
NLargest(s, n) ==
    IF n = 0 \/ s = <<>> THEN <<>>
    ELSE LET i == CHOOSE k \in 1..Len(s) : \A j \in 1..Len(s) : s[k] >= s[j]
         IN  << s[i] >> \o NLargest(RemoveAt(s, i), n - 1)

\* as highlight_top3, by position: the first three rows
highlight_first3(s) == [ i \in 1..Len(s) |-> i <= TopK ]

\* highlight_top3, lines 322-327: one flag per value of the column
highlight_top3(s) ==
    LET top3 == NLargest(s, TopK)
    IN  [ i \in 1..Len(s) |-> s[i] \in Range(top3) ]

Column(agg) == [ i \in 1..Len(agg) |-> agg[i].val ]

----------------------------------------------------------------------------
(* Pivot Builder *)

EmptyPivot == [ index |-> <<>>, columns |-> <<>>, cell |-> <<>> ]

\* as PivotTable, with aggfunc="last"
PivotTableLast(frame) ==
    LET rows == SortAsc(Unique(frame, "channel"), "channel")
        cols == SortAsc(Unique(frame, "period"), "period")
        At(c, p) == SelectSeq(frame, LAMBDA r : r.channel = c /\ r.period = p)
    IN  [ index   |-> rows,
          columns |-> cols,
          cell    |-> [ k \in Range(rows) \X Range(cols) |->
                          IF At(k[1], k[2]) # <<>>
                          THEN ValueOr0(At(k[1], k[2])[Len(At(k[1], k[2]))].rev)
                          ELSE 0 ] ]

\* pd.pivot_table(..., aggfunc="sum", fill_value=0), lines 343-350
PivotTable(frame) ==
    LET rows == SortAsc(Unique(frame, "channel"), "channel")
        cols == SortAsc(Unique(frame, "period"), "period")
        At(c, p) == SelectSeq(frame, LAMBDA r : r.channel = c /\ r.period = p)
    IN  [ index   |-> rows,
          columns |-> cols,
          cell    |-> [ k \in Range(rows) \X Range(cols) |->
                          IF At(k[1], k[2]) # <<>>
                          THEN SeriesSum(Series(At(k[1], k[2]), "rev"))
                          ELSE 0 ] ]

\* as SortPivot, ascending left at its default
SortPivotAscending(pt, month) ==
    LET rows == [ i \in 1..Len(pt.index) |->
                    [ key |-> pt.index[i], val |-> pt.cell[<< pt.index[i], month >>] ] ]
    IN  { [ pt EXCEPT !.index = [ i \in 1..Len(sorted) |-> sorted[i].key ] ] :
            sorted \in SortValuesAsc(rows) }

\* pivot_table.sort_values(by=month, ascending=False), lines 356-359
SortPivot(pt, month) ==
    LET rows == [ i \in 1..Len(pt.index) |->
                    [ key |-> pt.index[i], val |-> pt.cell[<< pt.index[i], month >>] ] ]
    IN  { [ pt EXCEPT !.index = [ i \in 1..Len(sorted) |-> sorted[i].key ] ] :
            sorted \in SortValuesDesc(rows) }

PivotColumn(pt, month) == [ i \in 1..Len(pt.index) |-> pt.cell[<< pt.index[i], month >>] ]

\* highlight_top3_pivot, lines 362-373: one flag per cell
highlight_top3_pivot(pt, month) ==
    IF month \in Range(pt.columns)
    THEN LET top3_vals == NLargest(PivotColumn(pt, month), TopK)
         IN  [ k \in DOMAIN pt.cell |->
                 k[2] = month /\ pt.cell[k] \in Range(top3_vals) ]
    ELSE [ k \in DOMAIN pt.cell |-> FALSE ]

\* convert_df_to_excel, lines 385-389: the sheet's header and rows
ConvertToExcel(pt) ==
    [ sheet_name |-> "Pivot",
      header     |-> pt.columns,
      rows       |-> [ i \in 1..Len(pt.index) |->
                         [ label  |-> pt.index[i],
                           values |-> [ j \in 1..Len(pt.columns) |->
                                          pt.cell[<< pt.index[i], pt.columns[j] >>] ] ] ] ]

----------------------------------------------------------------------------
(* What the run reads from outside *)

\* values of st.user.email: none, a whitelisted one, one not whitelisted
Emails == { "", "js.hong1@lingtea.co.kr", "intruder@example.com" }

\* values of datetime.today(): a leap day, at midnight and one tick later
Todays == { << 2024, 2, 29, 0 >>, << 2024, 2, 29, 1 >> }

\* date cells: no calendar day, the first day of the window, a later day
DateCells == { << 2023, 2, 29 >>, << 2023, 2, 28 >>, << 2024, 1, 15 >> }

\* numeric cells: "abc", "5", "1,0"
QtyCells == { << "a", "b", "c" >>, << "5" >> }
RevCells == { << "a", "b", "c" >>, << "5" >>, << "1", ",", "0" >> }

Periods == { << 2023, 12 >>, << 2024, 4 >>, << 2024, 6 >> }
Channels == { "C1", "C2", "C3" }
Products == { "T1", "T2", "T3", "T4" }

\* the frames or sheets of at most n rows over a set of rows
SheetsOf(rows, n) == UNION { [1..k -> rows] : k \in 0..n }

\* rows that differ in their cells: the date, the two numbers, the channel
LedgerRows ==
    [ date : DateCells, period : { << 2024, 4 >> }, channel : { "C1", "C2" },
      product : { "T1" }, qty : QtyCells, rev : RevCells ]

\* rows that differ in their dimensions
DimensionRows ==
    [ date : { << 2024, 1, 15 >> }, period : { << 2024, 4 >>, << 2024, 6 >> },
      channel : { "C1", "C2" }, product : { "T1", "T2" },
      qty : { << "5" >> }, rev : { << "1", ",", "0" >> } ]

\* sheet.get_all_values() in a full run
Sheets == SheetsOf(LedgerRows, MaxRows) \cup SheetsOf(DimensionRows, MaxRows)

\* a day inside the window of every value of today
Recent == Some(<< 2024, 1, 15, 0 >>)

\* filtered frames the trend is checked on: the period and the revenue differ
TrendFrames ==
    SheetsOf([ date : { Recent }, period : Periods, channel : { "C1" },
               product : { "T1" }, qty : { Some(5) },
               rev : { Null, Some(0), Some(5), Some(10), Some(0 - 5) } ],
             MaxTrendRows)

\* filtered frames the product ranking is checked on
RankFrames ==
    SheetsOf([ date : { Recent }, period : { << 2024, 4 >> }, channel : { "C1" },
               product : Products, qty : { Some(5) },
               rev : { Null, Some(5) } ],
             MaxRankRows)

\* loaded frames the pivot is checked on
PivotFrames ==
    SheetsOf([ date : { Recent }, period : { << 2024, 4 >>, << 2024, 6 >> },
               channel : Channels, product : { "T1" }, qty : { Some(5) },
               rev : { Null, Some(5) } ],
             MaxPivotRows)

----------------------------------------------------------------------------
(* The run *)

\* a name the run has not bound yet holds the empty value
Unbound == <<>>

Init ==
    /\ pc = "login"
    /\ is_cloud = FALSE
    /\ user_email = ""
    /\ data = Unbound
    /\ today = Unbound
    /\ df = Unbound
    /\ selected_months = {}
    /\ selected_channels = {}
    /\ selected_items = {}
    /\ filtered_df = Unbound
    /\ total_qty = Unbound
    /\ total_sales = Unbound
    /\ monthly_sales = Unbound
    /\ mom = Unbound
    /\ top_channel = ""
    /\ monthly_trend = Unbound
    /\ channel_sales = Unbound
    /\ item_rank = Unbound
    /\ styled_rank = Unbound
    /\ pivot_table = EmptyPivot
    /\ latest_month = Unbound
    /\ styled_pivot = Unbound
    /\ excel_data = Unbound
    /\ error = ""

\* as Whitelisted, any logged-in email passing
WhitelistedAnyone(email) == email # ""

\* line 46
Whitelisted(email) == email \in ALLOWED_USERS

\* lines 36-59. `first` is st.user.email at line 41, `second` at line 44 after
\* st.login(), `raises` whether a call inside the try raised. st.stop() ends the
\* run; inside the try it is caught by the bare except, which stops again.
LoginOutcome(cloud, first, second, raises) ==
    IF ~cloud THEN [ pc |-> "fetch", email |-> LOCAL_USER ]
    ELSE IF raises THEN [ pc |-> "stopped", email |-> "" ]
    ELSE LET email == IF first = "" THEN second ELSE first
         IN  IF Whitelisted(email)
             THEN [ pc |-> "fetch", email |-> email ]
             ELSE [ pc |-> "stopped", email |-> email ]

Login ==
    /\ pc = "login"
    /\ \E cloud \in BOOLEAN :
         \E out \in { LoginOutcome(cloud, first, second, raises) :
                        first \in Emails, second \in Emails, raises \in BOOLEAN } :
            /\ is_cloud' = cloud
            /\ user_email' = out.email
            /\ pc' = out.pc
    /\ UNCHANGED << data, today, df, selected_months, selected_channels,
                    selected_items, filtered_df, total_qty, total_sales,
                    monthly_sales, mom, top_channel, monthly_trend,
                    channel_sales, item_rank, styled_rank, pivot_table,
                    latest_month, styled_pivot, excel_data, error >>

\* load_data, lines 66-94: the rows below the header
Fetch ==
    /\ pc = "fetch"
    /\ data' \in Sheets
    /\ pc' = "normalize"
    /\ UNCHANGED << is_cloud, user_email, today, df, selected_months,
                    selected_channels, selected_items, filtered_df, total_qty,
                    total_sales, monthly_sales, mom, top_channel, monthly_trend,
                    channel_sales, item_rank, styled_rank, pivot_table,
                    latest_month, styled_pivot, excel_data, error >>

\* load_data, lines 96-134
NormalizeAndCut ==
    /\ pc = "normalize"
    /\ \E now \in Todays :
         /\ today' = Some(now)
         /\ df' = WindowCut(Normalize(data), now)
    /\ pc' = "loaded"
    /\ UNCHANGED << is_cloud, user_email, data, selected_months,
                    selected_channels, selected_items, filtered_df, total_qty,
                    total_sales, monthly_sales, mom, top_channel, monthly_trend,
                    channel_sales, item_rank, styled_rank, pivot_table,
                    latest_month, styled_pivot, excel_data, error >>

\* lines 136-139: load_data returns, its locals are gone
Return ==
    /\ pc = "loaded"
    /\ data' = Unbound
    /\ today' = Unbound
    /\ pc' = "sidebar"
    /\ UNCHANGED << is_cloud, user_email, df, selected_months,
                    selected_channels, selected_items, filtered_df, total_qty,
                    total_sales, monthly_sales, mom, top_channel, monthly_trend,
                    channel_sales, item_rank, styled_rank, pivot_table,
                    latest_month, styled_pivot, excel_data, error >>

\* a checkbox and a multiselect over the observed values, lines 151-190
Selections(all) ==
    { IF select_all THEN all ELSE picked :
        select_all \in BOOLEAN, picked \in SUBSET all }

Sidebar ==
    /\ pc = "sidebar"
    /\ selected_months' \in Selections(Unique(df, "period"))
    /\ selected_channels' \in Selections(Unique(df, "channel"))
    /\ selected_items' \in Selections(Unique(df, "product"))
    /\ pc' = "filter"
    /\ UNCHANGED << is_cloud, user_email, data, today, df, filtered_df,
                    total_qty, total_sales, monthly_sales, mom, top_channel,
                    monthly_trend, channel_sales, item_rank, styled_rank,
                    pivot_table, latest_month, styled_pivot, excel_data, error >>

\* lines 195-199
Filter ==
    /\ pc = "filter"
    /\ filtered_df' = FilterFrame(df, selected_months, selected_channels,
                                  selected_items)
    /\ pc' = "kpi"
    /\ UNCHANGED << is_cloud, user_email, data, today, df, selected_months,
                    selected_channels, selected_items, total_qty, total_sales,
                    monthly_sales, mom, top_channel, monthly_trend,
                    channel_sales, item_rank, styled_rank, pivot_table,
                    latest_month, styled_pivot, excel_data, error >>

\* lines 205-231
KPI ==
    /\ pc = "kpi"
    /\ total_qty' = SeriesSum(Series(filtered_df, "qty"))
    /\ total_sales' = SeriesSum(Series(filtered_df, "rev"))
    /\ monthly_sales' \in MonthlySales(filtered_df)
    /\ mom' = MoM(monthly_sales')
    /\ top_channel' = TopChannel(filtered_df)
    /\ pc' = "trend"
    /\ UNCHANGED << is_cloud, user_email, data, today, df, selected_months,
                    selected_channels, selected_items, filtered_df,
                    monthly_trend, channel_sales, item_rank, styled_rank,
                    pivot_table, latest_month, styled_pivot, excel_data, error >>

\* line 265: the revenue of each point in units of 100,000,000
TrendPoints(sorted) ==
    [ i \in 1..Len(sorted) |->
        [ key |-> sorted[i].key,
          val |-> sorted[i].val,
          eok |-> << sorted[i].val, 100000000 >> ] ]

\* lines 251-265
Trend ==
    /\ pc = "trend"
    /\ \E sorted \in MonthlySales(filtered_df) : monthly_trend' = TrendPoints(sorted)
    /\ pc' = "channel_sales"
    /\ UNCHANGED << is_cloud, user_email, data, today, df, selected_months,
                    selected_channels, selected_items, filtered_df, total_qty,
                    total_sales, monthly_sales, mom, top_channel,
                    channel_sales, item_rank, styled_rank, pivot_table,
                    latest_month, styled_pivot, excel_data, error >>

\* lines 289-294
ChannelSales ==
    /\ pc = "channel_sales"
    /\ channel_sales' \in SortValuesDesc(GroupBySum(filtered_df, "channel"))
    /\ pc' = "item_rank"
    /\ UNCHANGED << is_cloud, user_email, data, today, df, selected_months,
                    selected_channels, selected_items, filtered_df, total_qty,
                    total_sales, monthly_sales, mom, top_channel, monthly_trend,
                    item_rank, styled_rank, pivot_table, latest_month,
                    styled_pivot, excel_data, error >>

\* lines 309-334
ItemRank ==
    /\ pc = "item_rank"
    /\ item_rank' \in SortValuesDesc(GroupBySum(filtered_df, "product"))
    /\ styled_rank' = highlight_top3(Column(item_rank'))
    /\ pc' = "pivot"
    /\ UNCHANGED << is_cloud, user_email, data, today, df, selected_months,
                    selected_channels, selected_items, filtered_df, total_qty,
                    total_sales, monthly_sales, mom, top_channel, monthly_trend,
                    channel_sales, pivot_table, latest_month, styled_pivot,
                    excel_data, error >>

\* lines 343-350
Pivot ==
    /\ pc = "pivot"
    /\ pivot_table' = PivotTable(filtered_df)
    /\ pc' = "sort_pivot"
    /\ UNCHANGED << is_cloud, user_email, data, today, df, selected_months,
                    selected_channels, selected_items, filtered_df, total_qty,
                    total_sales, monthly_sales, mom, top_channel, monthly_trend,
                    channel_sales, item_rank, styled_rank, latest_month,
                    styled_pivot, excel_data, error >>

\* sorted(selected_months)[-1], line 353
Latest(months) == CHOOSE m \in months : \A o \in months : PeriodOrd(o) <= PeriodOrd(m)

\* lines 353-359: the index of an empty list raises IndexError
SortByLatest ==
    /\ pc = "sort_pivot"
    /\ IF selected_months = {}
       THEN /\ error' = "IndexError"
            /\ pc' = "raised"
            /\ UNCHANGED << latest_month, pivot_table >>
       ELSE /\ latest_month' = Latest(selected_months)
            /\ IF latest_month' \in Range(pivot_table.columns)
               THEN pivot_table' \in SortPivot(pivot_table, latest_month')
               ELSE pivot_table' = pivot_table
            /\ pc' = "export"
            /\ error' = error
    /\ UNCHANGED << is_cloud, user_email, data, today, df, selected_months,
                    selected_channels, selected_items, filtered_df, total_qty,
                    total_sales, monthly_sales, mom, top_channel, monthly_trend,
                    channel_sales, item_rank, styled_rank, styled_pivot,
                    excel_data >>

\* lines 362-398
Export ==
    /\ pc = "export"
    /\ styled_pivot' = highlight_top3_pivot(pivot_table, latest_month)
    /\ excel_data' = ConvertToExcel(pivot_table)
    /\ pc' = "done"
    /\ UNCHANGED << is_cloud, user_email, data, today, df, selected_months,
                    selected_channels, selected_items, filtered_df, total_qty,
                    total_sales, monthly_sales, mom, top_channel, monthly_trend,
                    channel_sales, item_rank, styled_rank, pivot_table,
                    latest_month, error >>

Next ==
    \/ Login
    \/ Fetch
    \/ NormalizeAndCut
    \/ Return
    \/ Sidebar
    \/ Filter
    \/ KPI
    \/ Trend
    \/ ChannelSales
    \/ ItemRank
    \/ Pivot
    \/ SortByLatest
    \/ Export

Spec == Init /\ [][Next]_vars

----------------------------------------------------------------------------
(* Parts of the run on their own: each starts in a state a local run, with *)
(* the named selections, is in at that line.                               *)

OneOf(S) == CHOOSE x \in S : TRUE

\* the state at line `at` of a local run that loaded `frame` and selected
\* `channels` and every month and product
StateAt(at, frame, channels) ==
    LET filtered == FilterFrame(frame, Unique(frame, "period"), channels,
                                Unique(frame, "product"))
        monthly  == OneOf(MonthlySales(filtered))
        past(lines) == at \in lines
    IN  /\ pc = at
        /\ is_cloud = FALSE
        /\ user_email = LOCAL_USER
        /\ data = Unbound
        /\ today = Unbound
        /\ df = frame
        /\ selected_months = Unique(frame, "period")
        /\ selected_channels = channels
        /\ selected_items = Unique(frame, "product")
        /\ filtered_df = filtered
        /\ total_qty = IF past({"item_rank", "pivot"})
                       THEN SeriesSum(Series(filtered, "qty")) ELSE Unbound
        /\ total_sales = IF past({"item_rank", "pivot"})
                         THEN SeriesSum(Series(filtered, "rev")) ELSE Unbound
        /\ monthly_sales = IF past({"item_rank", "pivot"}) THEN monthly ELSE Unbound
        /\ mom = IF past({"item_rank", "pivot"}) THEN MoM(monthly) ELSE Unbound
        /\ top_channel = IF past({"item_rank", "pivot"}) THEN TopChannel(filtered) ELSE ""
        /\ monthly_trend = IF past({"item_rank", "pivot"})
                           THEN TrendPoints(monthly) ELSE Unbound
        /\ channel_sales = IF past({"item_rank", "pivot"})
                           THEN OneOf(SortValuesDesc(GroupBySum(filtered, "channel")))
                           ELSE Unbound
        /\ item_rank = IF past({"pivot"})
                       THEN OneOf(SortValuesDesc(GroupBySum(filtered, "product")))
                       ELSE Unbound
        /\ styled_rank = IF past({"pivot"}) THEN highlight_top3(Column(item_rank))
                         ELSE Unbound
        /\ pivot_table = EmptyPivot
        /\ latest_month = Unbound
        /\ styled_pivot = Unbound
        /\ excel_data = Unbound
        /\ error = ""

\* the trend and the KPIs, from line 205
TrendInit == \E frame \in TrendFrames : StateAt("kpi", frame, Unique(frame, "channel"))
TrendNext == KPI \/ Trend
TrendSpec == TrendInit /\ [][TrendNext]_vars

\* the product ranking, from line 309
RankInit == \E frame \in RankFrames : StateAt("item_rank", frame, Unique(frame, "channel"))
RankNext == ItemRank
RankSpec == RankInit /\ [][RankNext]_vars

\* the pivot and its export, from line 343
PivotInit ==
    \E frame \in PivotFrames :
        \E channels \in Selections(Unique(frame, "channel")) :
            StateAt("pivot", frame, channels)
PivotNext == Pivot \/ SortByLatest \/ Export
PivotSpec == PivotInit /\ [][PivotNext]_vars

----------------------------------------------------------------------------
(* Vocabulary of the properties *)

AfterFilter == { "kpi", "trend", "channel_sales", "item_rank", "pivot",
                 "sort_pivot", "export", "done", "raised" }
AfterKPI == AfterFilter \ { "kpi" }
AfterChannelSales == AfterKPI \ { "trend", "channel_sales" }
AfterItemRank == AfterChannelSales \ { "item_rank" }
AfterPivot == AfterItemRank \ { "pivot" }
AfterSort == { "export", "done" }

\* how often a row occurs in a frame
Count(frame, r) == Cardinality({ i \in DOMAIN frame : frame[i] = r })

\* the sum of the non-null values of a column over the rows at a set of places
RECURSIVE RevOver(_, _)
RevOver(frame, I) ==
    IF I = {} THEN 0
    ELSE LET i == CHOOSE k \in I : TRUE
         IN  (IF frame[i].rev = <<>> THEN 0 ELSE frame[i].rev[1])
             + RevOver(frame, I \ {i})

RECURSIVE QtyOver(_, _)
QtyOver(frame, I) ==
    IF I = {} THEN 0
    ELSE LET i == CHOOSE k \in I : TRUE
         IN  (IF frame[i].qty = <<>> THEN 0 ELSE frame[i].qty[1])
             + QtyOver(frame, I \ {i})

\* the sum of a table's cells over a set of places
RECURSIVE SumCells(_, _)
SumCells(cell, K) ==
    IF K = {} THEN 0
    ELSE LET k == CHOOSE o \in K : TRUE
         IN  cell[k] + SumCells(cell, K \ {k})

RowsOfPeriod(frame, p) == { i \in DOMAIN frame : frame[i].period = p }
RowsOfChannel(frame, c) == { i \in DOMAIN frame : frame[i].channel = c }
RowsOfProduct(frame, t) == { i \in DOMAIN frame : frame[i].product = t }

\* the k-th least member of a set of numbers
KthOf(I, k) == CHOOSE i \in I : Cardinality({ j \in I : j < i }) = k - 1

\* now - 12 months: the same day and time a year earlier, 29 February giving
\* 28 February
YearBefore(now) ==
    << now[1] - 1, now[2], IF now[2] = 2 /\ now[3] = 29 THEN 28 ELSE now[3], now[4] >>

\* an instant as a number (two ticks a day)
Instant(ts) == ((ts[1] * 12 + (ts[2] - 1)) * 31 + (ts[3] - 1)) * 2 + ts[4]

\* the rows of the sheet whose date parsed and is at or after the cutoff
KeptRows ==
    { i \in DOMAIN data :
        /\ NormalizeRow(data[i]).date # <<>>
        /\ Instant(NormalizeRow(data[i]).date[1]) >= Instant(YearBefore(today[1])) }

----------------------------------------------------------------------------
(* C1. Dimension Filter: the filtered frame holds exactly the rows of the   *)
(* loaded frame whose period, channel and product are each in the selected *)
(* set, as often as the loaded frame holds them; an empty selection on any *)
(* dimension leaves it empty; no other row is in it.                       *)
C1_DimensionFilter ==
    pc \in AfterFilter =>
        /\ \A r \in Range(df) \cup Range(filtered_df) :
              Count(filtered_df, r) =
                 IF /\ r.period \in selected_months
                    /\ r.channel \in selected_channels
                    /\ r.product \in selected_items
                 THEN Count(df, r) ELSE 0
        /\ ( selected_months = {} \/ selected_channels = {} \/ selected_items = {} )
              => filtered_df = <<>>
        /\ Range(filtered_df) \subseteq Range(df)

\* two rows loaded, one kept and one excluded by its product alone
C1_Witness ==
    /\ pc = "kpi"
    /\ Len(df) = 2
    /\ Len(filtered_df) = 1
    /\ selected_months = Unique(df, "period")
    /\ selected_channels = Unique(df, "channel")
    /\ \E i \in DOMAIN df : df[i].product \notin selected_items

(* C2. Month-over-month: 0 with fewer than two periods present, 0 when the  *)
(* revenue of the second-latest present period is 0, otherwise             *)
(* (latest - previous) / previous * 100 over the two latest periods        *)
(* present.                                                                *)
C2_MonthOverMonth ==
    pc \in AfterKPI =>
        LET present == { filtered_df[i].period : i \in DOMAIN filtered_df }
        IN  IF Cardinality(present) < 2
            THEN mom[1] = 0 /\ mom[2] # 0
            ELSE LET last == CHOOSE p \in present :
                                \A o \in present : PeriodOrd(o) <= PeriodOrd(p)
                     rest == present \ { last }
                     prev == CHOOSE p \in rest :
                                \A o \in rest : PeriodOrd(o) <= PeriodOrd(p)
                     latest   == RevOver(filtered_df, RowsOfPeriod(filtered_df, last))
                     previous == RevOver(filtered_df, RowsOfPeriod(filtered_df, prev))
                 IN  /\ mom[2] # 0
                     /\ IF previous = 0
                        THEN mom[1] = 0
                        ELSE mom[1] * previous = (latest - previous) * 100 * mom[2]

\* three periods present, the two latest with different non-zero revenue, the
\* earliest different from both
C2_Witness ==
    /\ pc = "trend"
    /\ Len(monthly_sales) = 3
    /\ monthly_sales[2].val # 0
    /\ monthly_sales[3].val # monthly_sales[2].val
    /\ monthly_sales[1].val # monthly_sales[2].val
    /\ mom[1] # 0

(* C3. Top-K flags of the product ranking (K = 3), for at least K entries:  *)
(* an entry is flagged exactly when its value is at least the K-th largest *)
(* value; exactly K are flagged when no entry after the K-th has the       *)
(* K-th's value, more than K when one has.                                 *)
C3_TopKFlags ==
    ( pc \in AfterItemRank /\ Len(item_rank) >= TopK ) =>
        LET n       == Len(item_rank)
            kth     == item_rank[TopK].val
            flagged == { i \in 1..n : styled_rank[i] }
        IN  /\ Len(styled_rank) = n
            /\ Cardinality({ i \in 1..n : item_rank[i].val > kth }) < TopK
            /\ \A i \in 1..n : styled_rank[i] <=> item_rank[i].val >= kth
            /\ IF \E j \in (TopK + 1)..n : item_rank[j].val = kth
               THEN Cardinality(flagged) > TopK
               ELSE Cardinality(flagged) = TopK

\* four products, the fourth tied with the third below the first
C3_Witness ==
    /\ pc = "pivot"
    /\ Len(item_rank) = 4
    /\ item_rank[1].val > item_rank[3].val
    /\ item_rank[4].val = item_rank[3].val
    /\ \A i \in 1..4 : styled_rank[i]

(* C4. Pivot round-trip: the cells of the pivot sum to total_sales, and     *)
(* each cell is the revenue sum of the rows of its channel and period, 0   *)
(* when there are none.                                                    *)
C4_PivotRoundTrip ==
    pc \in AfterPivot =>
        LET cells == Range(pivot_table.index) \X Range(pivot_table.columns)
            CellRows(k) == RowsOfChannel(filtered_df, k[1])
                              \cap RowsOfPeriod(filtered_df, k[2])
        IN  /\ Range(pivot_table.index) = { filtered_df[i].channel : i \in DOMAIN filtered_df }
            /\ Range(pivot_table.columns) = { filtered_df[i].period : i \in DOMAIN filtered_df }
            /\ DOMAIN pivot_table.cell = cells
            /\ \A k \in cells : pivot_table.cell[k] = RevOver(filtered_df, CellRows(k))
            /\ SumCells(pivot_table.cell, cells) = total_sales

\* a sorted two by two pivot with a filled cell and revenue in the others
C4_Witness ==
    /\ pc = "done"
    /\ Len(pivot_table.index) = 2
    /\ Len(pivot_table.columns) = 2
    /\ Len(filtered_df) = 2
    /\ total_sales = 20

(* C5. Totality on empty data: whatever the three selections, the run       *)
(* raises no exception, and on an empty filtered frame it reports quantity *)
(* 0, revenue 0, MoM 0 and the top-channel sentinel.                       *)
C5_Totality ==
    /\ pc # "raised"
    /\ error = ""
    /\ ( pc \in AfterKPI /\ filtered_df = <<>> ) =>
          /\ total_qty = 0
          /\ total_sales = 0
          /\ mom[1] = 0
          /\ top_channel = NO_CHANNEL

(* C6. Window Filter: load_data returns exactly the normalized rows whose   *)
(* date is not null and at or after now - 12 months, in the sheet's order, *)
(* whether or not their quantity or revenue parsed.                        *)
C6_WindowFilter ==
    pc = "loaded" =>
        /\ Len(df) = Cardinality(KeptRows)
        /\ \A k \in 1..Len(df) : df[k] = NormalizeRow(data[KthOf(KeptRows, k)])

\* a row on the first instant of the window is kept with its unparsed
\* quantity, a row with no calendar date is dropped
C6_Witness ==
    /\ pc = "loaded"
    /\ Len(data) = 2
    /\ Len(df) = 1
    /\ df[1].date = Some(YearBefore(today[1]))
    /\ df[1].qty = <<>>
    /\ \E i \in DOMAIN data : NormalizeRow(data[i]).date = <<>>

(* C7. Pivot row order: with the anchor period (the greatest selected       *)
(* period) among the columns, the anchor column never increases down the   *)
(* rows; with the anchor period not among the columns the sort step leaves *)
(* the pivot as it was built and no cell is flagged.                       *)
C7_PivotRowOrder ==
    [][ /\ ( pc = "sort_pivot" /\ pc' = "export" ) =>
            /\ latest_month' \in selected_months
            /\ \A m \in selected_months : PeriodOrd(m) <= PeriodOrd(latest_month')
            /\ IF latest_month' \in Range(pivot_table.columns)
               THEN /\ \A i \in 1..(Len(pivot_table'.index) - 1) :
                         pivot_table'.cell[<< pivot_table'.index[i], latest_month' >>]
                            >= pivot_table'.cell[<< pivot_table'.index[i + 1], latest_month' >>]
                    /\ Range(pivot_table'.index) = Range(pivot_table.index)
                    /\ Len(pivot_table'.index) = Len(pivot_table.index)
                    /\ pivot_table'.cell = pivot_table.cell
                    /\ pivot_table'.columns = pivot_table.columns
               ELSE pivot_table' = pivot_table
        /\ ( pc = "export" /\ pc' = "done"
             /\ latest_month \notin Range(pivot_table.columns) ) =>
            /\ pivot_table' = pivot_table
            /\ \A k \in DOMAIN styled_pivot' : ~styled_pivot'[k]
      ]_vars

\* a pivot of two channels none of whose rows is of the anchor period
C7_Witness ==
    /\ pc = "done"
    /\ Len(pivot_table.index) = 2
    /\ latest_month \notin Range(pivot_table.columns)
    /\ pivot_table.cell[<< pivot_table.index[1], pivot_table.columns[1] >>]
          < pivot_table.cell[<< pivot_table.index[2], pivot_table.columns[1] >>]

(* C8. Ranker order: both rankings list the entries by revenue descending, *)
(* entries of equal revenue in ascending key order, so that the order is   *)
(* determined by the aggregate.                                            *)
C8_RankOrder ==
    /\ pc \in AfterChannelSales =>
          \A i, j \in DOMAIN channel_sales : i < j =>
             \/ channel_sales[i].val > channel_sales[j].val
             \/ /\ channel_sales[i].val = channel_sales[j].val
                /\ StrOrd(channel_sales[i].key) < StrOrd(channel_sales[j].key)
    /\ pc \in AfterItemRank =>
          \A i, j \in DOMAIN item_rank : i < j =>
             \/ item_rank[i].val > item_rank[j].val
             \/ /\ item_rank[i].val = item_rank[j].val
                /\ StrOrd(item_rank[i].key) < StrOrd(item_rank[j].key)

\* What the two sort_values calls do give: every key of the filtered frame
\* once, with its revenue sum, the revenue never increasing down the list.
RankingsDescend ==
    /\ pc \in AfterChannelSales =>
          /\ \A i, j \in DOMAIN channel_sales :
                /\ i < j => channel_sales[i].val >= channel_sales[j].val
                /\ i # j => channel_sales[i].key # channel_sales[j].key
          /\ { channel_sales[i].key : i \in DOMAIN channel_sales }
                = { filtered_df[i].channel : i \in DOMAIN filtered_df }
    /\ pc \in AfterItemRank =>
          /\ \A i, j \in DOMAIN item_rank :
                /\ i < j => item_rank[i].val >= item_rank[j].val
                /\ i # j => item_rank[i].key # item_rank[j].key
          /\ { item_rank[i].key : i \in DOMAIN item_rank }
                = { filtered_df[i].product : i \in DOMAIN filtered_df }

\* what a numeric cell of the model says
Reading(cell) ==
    IF cell = << "5" >> THEN << 5 >>
    ELSE IF cell = << "1", ",", "0" >> THEN << 10 >>
    ELSE <<>>

(* C9. Null-as-zero sums: a row whose quantity does not parse and whose     *)
(* date is inside the window is loaded with a null quantity and its        *)
(* revenue as written; total quantity, total revenue and every revenue     *)
(* aggregate are the sums of the non-null values over the filtered frame.  *)
C9_NullAsZero ==
    /\ pc = "loaded" =>
          /\ Len(df) = Cardinality(KeptRows)
          /\ \A k \in 1..Len(df) :
                /\ df[k].qty = Reading(data[KthOf(KeptRows, k)].qty)
                /\ df[k].rev = Reading(data[KthOf(KeptRows, k)].rev)
    /\ pc \in AfterKPI =>
          /\ total_qty = QtyOver(filtered_df, DOMAIN filtered_df)
          /\ total_sales = RevOver(filtered_df, DOMAIN filtered_df)
          /\ \A i \in DOMAIN monthly_sales :
                monthly_sales[i].val =
                   RevOver(filtered_df, RowsOfPeriod(filtered_df, monthly_sales[i].key))
    /\ pc \in AfterChannelSales =>
          \A i \in DOMAIN channel_sales :
             channel_sales[i].val =
                RevOver(filtered_df, RowsOfChannel(filtered_df, channel_sales[i].key))
    /\ pc \in AfterItemRank =>
          \A i \in DOMAIN item_rank :
             item_rank[i].val =
                RevOver(filtered_df, RowsOfProduct(filtered_df, item_rank[i].key))

\* the spec's scenario: of two rows one has no quantity and revenue 10, the
\* other quantity 5 and revenue 5
C9_Witness ==
    /\ pc = "done"
    /\ Len(filtered_df) = 2
    /\ \E i \in DOMAIN filtered_df :
          filtered_df[i].qty = <<>> /\ filtered_df[i].rev = << 10 >>
    /\ total_qty = 5
    /\ total_sales = 15
    /\ Len(channel_sales) = 1
    /\ channel_sales[1].val = 15

(* C10. Access gate: where the hosted login is available, the data load and *)
(* every later step are reached only by a whitelisted email; any other     *)
(* run stops before load_data. Only a local run goes on unchecked.         *)
C10_AccessGate ==
    /\ pc \notin { "login", "stopped" } =>
          IF is_cloud THEN user_email \in ALLOWED_USERS ELSE user_email = LOCAL_USER
    /\ pc = "stopped" =>
          /\ is_cloud
          /\ user_email \notin ALLOWED_USERS
          /\ data = Unbound
          /\ df = Unbound

\* a hosted run of a whitelisted user that loaded rows and finished
C10_Witness ==
    /\ pc = "done"
    /\ is_cloud
    /\ user_email \in ALLOWED_USERS
    /\ df # <<>>

====
